---- MODULE Spec2Model ----
(***************************************************************************)
(* A model of lightstacks: the infra model and its scope ids (parser.rs),  *)
(* the module dependency graph and its layered execution plan (graph.rs),  *)
(* and the layered run with its reference resolution (runtime.rs) against  *)
(* the three operations of the RunTerraformCommand trait (terraform.rs).   *)
(***************************************************************************)
EXTENDS Integers, Sequences, FiniteSets, TLC

VARIABLES
    infra,        \* the InfraFile handed to Runtime::new
    graph,        \* Result<ModuleGraph> of ModuleGraph::new
    plan,         \* the last execution_layers call: its argument and Result
    action,       \* the TerraformAction given to run_module
    pc,           \* position of run_module
    layer_idx,    \* index of the layer run_module is in
    layers,       \* the layers run_module iterates over
    target,       \* the module id given to run_module
    tasks,        \* the futures of the current layer, by module id
    target_module,\* run_module's target_module
    outputs_map,  \* run_module's outputs_map
    calls,        \* per module: how often each step was begun, returned, succeeded
    run_result,   \* what run_module returned
    inj,          \* a standalone inject_inputs call: its arguments and result
    walk          \* a standalone path walk: root value, path and result

vars == <<infra, graph, plan, action, pc, layer_idx, layers, target, tasks,
          target_module, outputs_map, calls, run_result, inj, walk>>

(***************************************************************************)
(* Bounds of the model.                                                    *)
(***************************************************************************)
NumModules == 3       \* modules of a generated model
MaxEdges == 3         \* dependency declarations in a generated model
MaxRunEdges == 2      \* dependency declarations in a generated model that is run

(***************************************************************************)
(* Generic helpers.                                                        *)
(***************************************************************************)
Range(s) == {s[i] : i \in DOMAIN s}

Reverse(s) == [i \in 1..Len(s) |-> s[Len(s) + 1 - i]]

Perms(S) == {p \in [1..Cardinality(S) -> S] : Range(p) = S}

Put(f, k, v) == [x \in (DOMAIN f) \cup {k} |-> IF x = k THEN v ELSE f[x]]

EmptyMap == <<>>

RECURSIVE Join(_)
Join(cs) == IF cs = <<>> THEN "" ELSE Head(cs) \o Join(Tail(cs))

\* position of the first c in the character sequence s, 0 if there is none
RECURSIVE FindFrom(_, _, _)
FindFrom(s, c, i) ==
    IF i > Len(s) THEN 0
    ELSE IF s[i] = c THEN i
    ELSE FindFrom(s, c, i + 1)

Find(s, c) == FindFrom(s, c, 1)

RECURSIVE Split(_, _)
Split(s, c) ==
    LET i == Find(s, c) IN
    IF i = 0 THEN <<s>>
    ELSE <<SubSeq(s, 1, i - 1)>> \o Split(SubSeq(s, i + 1, Len(s)), c)

(***************************************************************************)
(* serde_yaml::Value, Option<Value> and the InputValue enum.               *)
(***************************************************************************)
Null == [t |-> "null", v |-> 0]
Str(s) == [t |-> "str", v |-> s]
Num(n) == [t |-> "num", v |-> n]
SeqV(s) == [t |-> "seq", v |-> s]
MapV(f) == [t |-> "map", v |-> f]

None == [some |-> FALSE, v |-> Null]
Some(x) == [some |-> TRUE, v |-> x]

Ref(p) == [tag |-> "Ref", path |-> p, default |-> Null]
RefWithDefault(p, d) == [tag |-> "RefWithDefault", path |-> p, default |-> d]
Default(v) == [tag |-> "Default", path |-> <<>>, default |-> v]

(***************************************************************************)
(* runtime.rs: parse_path.  A path is a sequence of characters; the result *)
(* is the segment list, or the panic of one of the two expect() calls.     *)
(***************************************************************************)
Key(k) == [seg |-> "Key", key |-> k, idx |-> 0]
Index(i) == [seg |-> "Index", key |-> "", idx |-> i]

Digits == <<"0", "1", "2", "3", "4", "5", "6", "7", "8", "9">>

DigitVal(c) == (CHOOSE i \in 1..10 : Digits[i] = c) - 1

IsDigit(c) == \E i \in 1..10 : Digits[i] = c

RECURSIVE DigitsVal(_, _)
DigitsVal(s, acc) ==
    IF s = <<>> THEN acc ELSE DigitsVal(Tail(s), acc * 10 + DigitVal(Head(s)))

\* str::parse::<usize>: an optional '+', then one or more decimal digits
ParseUsize(s) ==
    LET body == IF s # <<>> /\ Head(s) = "+" THEN Tail(s) ELSE s IN
    IF body # <<>> /\ \A i \in 1..Len(body) : IsDigit(body[i])
    THEN [ok |-> TRUE, n |-> DigitsVal(body, 0)]
    ELSE [ok |-> FALSE, n |-> 0]

Parsed(segs) == [panic |-> FALSE, msg |-> "", segs |-> segs]
ParsePanic(m) == [panic |-> TRUE, msg |-> m, segs |-> <<>>]

\* the while-let loop over one dot-separated part, then the trailing key
RECURSIVE ParsePart(_, _)
ParsePart(rem, segs) ==
    LET i == Find(rem, "[") IN
    IF i = 0
    THEN Parsed(IF rem # <<>> THEN Append(segs, Key(Join(rem))) ELSE segs)
    ELSE LET segs1 == IF i > 1
                      THEN Append(segs, Key(Join(SubSeq(rem, 1, i - 1))))
                      ELSE segs
             after == SubSeq(rem, i + 1, Len(rem))
             j == Find(after, "]")
         IN  IF j = 0 THEN ParsePanic("Unmatched bracket")
             ELSE LET n == ParseUsize(SubSeq(after, 1, j - 1)) IN
                  IF ~n.ok THEN ParsePanic("Invalid index")
                  ELSE ParsePart(SubSeq(after, j + 1, Len(after)),
                                 Append(segs1, Index(n.n)))

RECURSIVE ParseParts(_, _)
ParseParts(parts, segs) ==
    IF parts = <<>> THEN Parsed(segs)
    ELSE LET r == ParsePart(Head(parts), segs) IN
         IF r.panic THEN r ELSE ParseParts(Tail(parts), r.segs)

parse_path(path) == ParseParts(Split(path, "."), <<>>)

(***************************************************************************)
(* runtime.rs: get_value_from_path.                                        *)
(***************************************************************************)
\* a walk that leaves wrappers in place
NoUnwrap(cur) == cur

\* the inner loop: unwrap "value" keys while the current value is a mapping
RECURSIVE Unwrap(_)
Unwrap(cur) ==
    IF cur.t = "map" /\ "value" \in DOMAIN cur.v
    THEN Unwrap(cur.v["value"])
    ELSE cur

RECURSIVE get_value_from_path(_, _)
get_value_from_path(cur, path) ==
    IF path = <<>> THEN Some(cur)
    ELSE LET seg == Head(path) IN
         IF seg.seg = "Key"
         THEN IF cur.t = "map" /\ seg.key \in DOMAIN cur.v
              THEN get_value_from_path(Unwrap(cur.v[seg.key]), Tail(path))
              ELSE None
         ELSE IF cur.t = "seq" /\ seg.idx + 1 \in DOMAIN cur.v
              THEN get_value_from_path(Unwrap(cur.v[seg.idx + 1]), Tail(path))
              ELSE None

(***************************************************************************)
(* parser.rs: the infra model.  The tree of InfraNode is kept as an arena: *)
(* infra.roots are the ids of InfraFile.nodes, infra.scopes and            *)
(* infra.modules map an id to its ScopeNode / ModuleNode, and a scope's    *)
(* children are the ids of its child nodes.                                *)
(***************************************************************************)
Dependency(id, name) == [id |-> id, name |-> name]

ModuleNode(id, source, deps, inputs, mocked) ==
    [id |-> id, source |-> source,
     dependencies |-> [i \in 1..Len(deps) |-> Dependency("", deps[i])],
     variables |-> EmptyMap, mocked_outputs |-> mocked, inputs |-> inputs,
     scope_ids |-> {}]

ScopeNode(id, scope, variables, children) ==
    [id |-> id, scope |-> scope, variables |-> variables, children |-> children]

\* add_scope_ids_to_childrens_recursive: the pairs <<module id, scope id>> it inserts
RECURSIVE add_scope_ids_to_childrens_recursive(_, _, _)
add_scope_ids_to_childrens_recursive(f, childrens, scope_ids) ==
    UNION { IF c \in DOMAIN f.scopes
            THEN add_scope_ids_to_childrens_recursive(
                     f, f.scopes[c].children, scope_ids \cup {f.scopes[c].id})
            ELSE {<<c, s>> : s \in scope_ids}
          : c \in childrens }

\* InfraFile::add_scope_id_to_childrens: root modules are skipped
add_scope_id_to_childrens(f) ==
    LET ins == UNION { add_scope_ids_to_childrens_recursive(
                           f, f.scopes[r].children, {f.scopes[r].id})
                     : r \in {x \in f.roots : x \in DOMAIN f.scopes} }
    IN  [f EXCEPT !.modules =
            [m \in DOMAIN f.modules |->
                [f.modules[m] EXCEPT !.scope_ids =
                    @ \cup {p[2] : p \in {q \in ins : q[1] = m}}]]]

(***************************************************************************)
(* graph.rs: collect_modules, resolve_dependency_id, ModuleGraph::new.     *)
(***************************************************************************)
\* the ids of the modules / scopes collect_modules inserts from one node
RECURSIVE collect_modules(_, _)
collect_modules(f, node) ==
    IF node \in DOMAIN f.modules
    THEN [modules |-> {node}, scopes |-> {}]
    ELSE LET sub == {collect_modules(f, c) : c \in f.scopes[node].children} IN
         [modules |-> UNION {r.modules : r \in sub},
          scopes |-> {node} \cup UNION {r.scopes : r \in sub}]

NoErr == [kind |-> "", dep |-> "", module |-> ""]
DependencyNotFound(dep_name, module_id) ==
    [kind |-> "DependencyNotFound", dep |-> dep_name, module |-> module_id]

\* the inner `for m in modules.values()` of one scope id
RECURSIVE ScanModules(_, _, _, _)
ScanModules(values, modules, dep_name, scope_id) ==
    IF values = <<>> THEN ""
    ELSE LET m == modules[Head(values)] IN
         IF m.source = dep_name /\ scope_id \in m.scope_ids
         THEN m.id
         ELSE ScanModules(Tail(values), modules, dep_name, scope_id)

RECURSIVE ScanScopes(_, _, _, _)
ScanScopes(scope_ids, values, modules, dep_name) ==
    IF scope_ids = <<>> THEN ""
    ELSE LET hit == ScanModules(values, modules, dep_name, Head(scope_ids)) IN
         IF hit # "" THEN hit
         ELSE ScanScopes(Tail(scope_ids), values, modules, dep_name)

\* the dependency declarations <<of acct.vpc, of acct.app, of top>> of the
\* models of MissingInfra: the first resolves, the others declare a name that
\* no module of an enclosing scope has as source
MissingDeps ==
    { << <<>>, <<"vpc">>, <<>> >>,
      << <<>>, <<"vpc", "mq">>, <<>> >>,     \* mq exists in scope other only
      << <<>>, <<"zz">>, <<>> >>,            \* no module of source zz
      << <<"zz">>, <<"vpc">>, <<>> >>,
      << <<>>, <<"vpc">>, <<"vpc">> >>,      \* a root module has no scope
      << <<"zz">>, <<"mq">>, <<>> >> }

\* scopes acct (holding vpc and app) and other (holding mq), and the root
\* module top
MissingInfra(deps) ==
    [roots |-> {"acct", "other", "top"},
     scopes |->
        [s \in {"acct", "other"} |->
            IF s = "acct"
            THEN ScopeNode("acct", "account", EmptyMap,
                           {"acct.vpc", "acct.app"})
            ELSE ScopeNode("other", "account", EmptyMap, {"other.mq"})],
     modules |->
        [m \in {"acct.vpc", "acct.app", "other.mq", "top"} |->
            CASE m = "acct.vpc" ->
                   ModuleNode(m, "vpc", deps[1], EmptyMap,
                              Some([k \in {"id"} |-> Str(m)]))
              [] m = "acct.app" ->
                   ModuleNode(m, "app", deps[2], EmptyMap, None)
              [] m = "other.mq" ->
                   ModuleNode(m, "mq", <<>>, EmptyMap, None)
              [] OTHER ->
                   ModuleNode(m, "lb", deps[3], EmptyMap, None)]]

\* a resolution that takes any module of the source, whatever its scopes
resolve_in_any_scope(module, dep_name, modules, values, scope_iter) ==
    LET hits == {x \in DOMAIN modules : modules[x].source = dep_name} IN
    IF hits # {}
    THEN [ok |-> TRUE, id |-> CHOOSE x \in hits : TRUE, err |-> NoErr]
    ELSE [ok |-> FALSE, id |-> "",
          err |-> DependencyNotFound(dep_name, module.id)]

\* resolve_dependency_id; `values` is the iteration order of the modules map and
\* `scope_iter` the iteration order of module.scope_ids (a HashSet)
resolve_dependency_id(module, dep_name, modules, values, scope_iter) ==
    LET hit == ScanScopes(Reverse(scope_iter), values, modules, dep_name) IN
    IF hit # "" THEN [ok |-> TRUE, id |-> hit, err |-> NoErr]
    ELSE [ok |-> FALSE, id |-> "", err |-> DependencyNotFound(dep_name, module.id)]

Scope(name, variables) == [name |-> name, variables |-> variables]

GraphErr(e) ==
    [ok |-> FALSE, err |-> e, modules |-> EmptyMap, scopes |-> EmptyMap,
     mod_dependency_graph |-> EmptyMap]

\* DiGraph::add_edge(from, to): mod_dependency_graph maps each node to the
\* sources of its incoming edges, the edge added last first (the order in which
\* petgraph's neighbors_directed(to, Incoming) yields them)
add_edge(dg, from, to) == [dg EXCEPT ![to] = <<from>> \o @]

\* the loop over module.dependencies: the enriched dependencies and the edges
\* "dependency -> dependent"
RECURSIVE EnrichDeps(_, _, _, _, _, _)
EnrichDeps(module, i, modules, values, scope_iter, acc) ==
    IF i > Len(module.dependencies) THEN acc
    ELSE LET name == module.dependencies[i].name
             r == resolve_dependency_id(module, name, modules, values, scope_iter)
         IN  IF ~r.ok THEN [acc EXCEPT !.ok = FALSE, !.err = r.err]
             ELSE EnrichDeps(module, i + 1, modules, values, scope_iter,
                      [acc EXCEPT !.deps = Append(@, Dependency(r.id, name)),
                                  !.dg = add_edge(@, r.id, module.id)])

\* the loop `for (id, module) in &modules`
RECURSIVE BuildModules(_, _, _, _, _)
BuildModules(todo, modules, values, scope_iter, acc) ==
    IF todo = <<>> THEN acc
    ELSE LET id == Head(todo)
             r == EnrichDeps(modules[id], 1, modules, values, scope_iter[id],
                             [ok |-> TRUE, err |-> NoErr, deps |-> <<>>,
                              dg |-> acc.mod_dependency_graph])
         IN  IF ~r.ok THEN GraphErr(r.err)
             ELSE BuildModules(Tail(todo), modules, values, scope_iter,
                      [acc EXCEPT
                          !.modules = Put(@, id, [modules[id] EXCEPT
                                                     !.dependencies = r.deps]),
                          !.mod_dependency_graph = r.dg])

\* ModuleGraph::new; `values` is the iteration order of the modules HashMap and
\* scope_iter[m] the iteration order of the scope_ids HashSet of module m
ModuleGraphNew(f, values, scope_iter) ==
    LET sub == {collect_modules(f, r) : r \in f.roots}
        mids == UNION {c.modules : c \in sub}
        sids == UNION {c.scopes : c \in sub}
        modules == [m \in mids |-> f.modules[m]]
        scopes == [s \in sids |->
                      Scope(f.scopes[s].scope, f.scopes[s].variables)]
    IN  BuildModules(values, modules, values, scope_iter,
            [ok |-> TRUE, err |-> NoErr, modules |-> EmptyMap,
             scopes |-> scopes,
             mod_dependency_graph |-> [m \in mids |-> <<>>]])

(***************************************************************************)
(* graph.rs: ModuleGraph::execution_layers.                                *)
(***************************************************************************)
\* mod_dependency_graph.neighbors_directed(idx, Direction::Incoming)
neighbors_incoming(g, idx) == g.mod_dependency_graph[idx]

\* the `while let Some(idx) = stack.pop()` loop collecting the ancestors
RECURSIVE CollectRelevant(_, _, _)
CollectRelevant(g, stack, relevant) ==
    IF stack = <<>> THEN relevant
    ELSE LET idx == stack[Len(stack)]
             rest == SubSeq(stack, 1, Len(stack) - 1)
         IN  IF idx \in relevant
             THEN CollectRelevant(g, rest, relevant)
             ELSE CollectRelevant(g, rest \o neighbors_incoming(g, idx),
                                  relevant \cup {idx})

\* a visit that meets a temp-marked node and carries on as if it were done
CycleIgnored(st) == st

\* `return Err(anyhow!("Cycle detected in dependency graph"))`
CycleDetected(st) == [st EXCEPT !.cycle = TRUE]

\* fn visit: st holds temp_mark, perm_mark, sorted and whether a cycle was hit
RECURSIVE visit(_, _, _, _)
RECURSIVE VisitDeps(_, _, _, _)
visit(idx, g, relevant, st) ==
    IF idx \in st.perm_mark THEN st
    ELSE IF idx \in st.temp_mark THEN CycleDetected(st)
    ELSE LET st1 == VisitDeps(neighbors_incoming(g, idx), g, relevant,
                              [st EXCEPT !.temp_mark = @ \cup {idx}])
         IN  IF st1.cycle THEN st1
             ELSE [st1 EXCEPT !.temp_mark = @ \ {idx},
                              !.perm_mark = @ \cup {idx},
                              !.sorted = Append(@, idx)]

VisitDeps(deps, g, relevant, st) ==
    IF deps = <<>> THEN st
    ELSE LET st1 == IF Head(deps) \in relevant
                    THEN visit(Head(deps), g, relevant, st)
                    ELSE st
         IN  IF st1.cycle THEN st1
             ELSE VisitDeps(Tail(deps), g, relevant, st1)

\* the elements of the set S in the order the sequence iter lists them
RECURSIVE InOrder(_, _)
InOrder(iter, S) ==
    IF iter = <<>> THEN <<>>
    ELSE (IF Head(iter) \in S THEN <<Head(iter)>> ELSE <<>>)
         \o InOrder(Tail(iter), S)

\* a layering that takes one ready node per layer
only_first_ready(g, idx, relevant, assigned) ==
    LET ready == {n \in relevant \ assigned :
                     \A d \in Range(neighbors_incoming(g, n)) :
                        d \in relevant => d \in assigned}
    IN  ready # {} /\ idx = CHOOSE n \in ready : TRUE

\* a layering that also takes a node whose dependencies enter the same layer
all_deps_assigned_or_ready(g, idx, relevant, assigned) ==
    \A dep_idx \in Range(neighbors_incoming(g, idx)) :
        dep_idx \in relevant =>
           \/ dep_idx \in assigned
           \/ \A d \in Range(neighbors_incoming(g, dep_idx)) :
                 d \in relevant => d \in assigned

\* a layering that only takes nodes without relevant dependencies
no_relevant_deps(g, idx, relevant, assigned) ==
    \A dep_idx \in Range(neighbors_incoming(g, idx)) : dep_idx \notin relevant

\* a layering that never waits for a dependency
all_deps_ignored(g, idx, relevant, assigned) == TRUE

all_deps_assigned(g, idx, relevant, assigned) ==
    \A dep_idx \in Range(neighbors_incoming(g, idx)) :
        dep_idx \in relevant => dep_idx \in assigned

PlanErr(kind) == [ok |-> FALSE, err |-> kind, layers |-> <<>>, target |-> ""]

\* the `while !remaining.is_empty()` loop; `iter` gives the iteration order of
\* the HashSets `remaining`
RECURSIVE BuildLayers(_, _, _, _, _, _)
BuildLayers(g, relevant, remaining, assigned, layers_acc, iter) ==
    IF remaining = {} THEN [ok |-> TRUE, layers |-> layers_acc]
    ELSE LET layer == {idx \in remaining :
                          all_deps_assigned(g, idx, relevant, assigned)}
         IN  IF layer = {} THEN [ok |-> FALSE, layers |-> <<>>]
             ELSE BuildLayers(g, relevant, remaining \ layer,
                              assigned \cup layer,
                              Append(layers_acc, InOrder(iter, layer)), iter)

\* a layering that leaves the target among the nodes to assign
remaining_with_target(sorted, target_idx) == Range(sorted)

\* `remaining`: the sorted nodes without the target
remaining_of(sorted, target_idx) == Range(sorted) \ {target_idx}

execution_layers(g, target_module_id, iter) ==
    IF target_module_id \notin DOMAIN g.mod_dependency_graph
    THEN PlanErr("TargetNotFound")
    ELSE LET relevant == CollectRelevant(g, <<target_module_id>>, {})
             st == visit(target_module_id, g, relevant,
                         [temp_mark |-> {}, perm_mark |-> {}, sorted |-> <<>>,
                          cycle |-> FALSE])
         IN  IF st.cycle THEN PlanErr("CycleDetected")
             ELSE LET r == BuildLayers(g, relevant,
                                       remaining_of(st.sorted, target_module_id),
                                       {}, <<>>, iter)
                  IN  IF ~r.ok THEN PlanErr("LayeringError")
                      ELSE [ok |-> TRUE, err |-> "", layers |-> r.layers,
                            target |-> target_module_id]

(***************************************************************************)
(* runtime.rs: find_scope_variable, resolve_ref, inject_inputs.            *)
(* A Result is Ok, Err (an anyhow error) or Panic (an expect() that fired).*)
(***************************************************************************)
NoError == [msg |-> "", arg |-> ""]
Error(msg, arg) == [msg |-> msg, arg |-> arg]

Ok(val) == [st |-> "Ok", val |-> val, err |-> NoError]
Err(msg, arg) == [st |-> "Err", val |-> None, err |-> Error(msg, arg)]
Panic(msg) == [st |-> "Panic", val |-> None, err |-> Error(msg, "")]

\* the find_map over module.scope_ids, visited in the order scope_iter
RECURSIVE FindScope(_, _, _)
FindScope(scope_iter, scope_type, g) ==
    IF scope_iter = <<>> THEN ""
    ELSE IF Head(scope_iter) \in DOMAIN g.scopes
            /\ g.scopes[Head(scope_iter)].name = scope_type
         THEN Head(scope_iter)
         ELSE FindScope(Tail(scope_iter), scope_type, g)

\* find_scope_variable: Ok(Some(v)), Ok(None), or the panic of parse_path
find_scope_variable(module, scope_type, rest, g, scope_iter) ==
    LET sid == FindScope(scope_iter, scope_type, g) IN
    IF sid = "" THEN Ok(None)
    ELSE LET segments == parse_path(rest) IN
         IF segments.panic THEN Panic(segments.msg)
         ELSE Ok(get_value_from_path(MapV(g.scopes[sid].variables),
                                     segments.segs))

\* the first dependency of the module whose name is `first`, 0 if none
RECURSIVE FindDep(_, _, _)
FindDep(deps, first, i) ==
    IF i > Len(deps) THEN 0
    ELSE IF deps[i].name = first THEN i
    ELSE FindDep(deps, first, i + 1)

\* a resolution that consults the enclosing scopes before the dependencies
resolve_ref_scope_first(path, module, outputs, g, scope_iter) ==
    LET dot == Find(path, ".")
        first == Join(IF dot = 0 THEN path ELSE SubSeq(path, 1, dot - 1))
        rest == IF dot = 0 THEN <<>> ELSE SubSeq(path, dot + 1, Len(path))
        d == FindDep(module.dependencies, first, 1)
        s == find_scope_variable(module, first, rest, g, scope_iter)
    IN  IF s.st # "Ok" \/ s.val.some THEN s
        ELSE IF d = 0 THEN s
        ELSE LET dep == module.dependencies[d] IN
             IF dep.id \notin DOMAIN outputs
             THEN Err("Outputs missing", dep.id)
             ELSE LET segments == parse_path(rest) IN
                  IF segments.panic THEN Panic(segments.msg)
                  ELSE LET resolved == get_value_from_path(MapV(outputs[dep.id]),
                                                           segments.segs)
                       IN  IF ~resolved.some
                           THEN Err("Cannot resolve", Join(path))
                           ELSE Ok(resolved)

\* resolve_ref: Ok(Some(v)), Ok(None), an error, or the panic of parse_path
resolve_ref(path, module, outputs, g, scope_iter) ==
    LET dot == Find(path, ".")
        first == Join(IF dot = 0 THEN path ELSE SubSeq(path, 1, dot - 1))
        rest == IF dot = 0 THEN <<>> ELSE SubSeq(path, dot + 1, Len(path))
        d == FindDep(module.dependencies, first, 1)
    IN  IF d # 0
        THEN LET dep == module.dependencies[d] IN
             IF dep.id \notin DOMAIN outputs
             THEN Err("Outputs missing", dep.id)
             ELSE CHOOSE res \in
                     { IF segments.panic THEN Panic(segments.msg)
                       ELSE LET resolved ==
                                   get_value_from_path(MapV(outputs[dep.id]),
                                                       segments.segs)
                            IN  IF ~resolved.some
                                THEN Err("Cannot resolve", Join(path))
                                ELSE Ok(resolved) :
                         segments \in {parse_path(rest)} } : TRUE
        ELSE find_scope_variable(module, first, rest, g, scope_iter)

\* a resolution that gives every unresolved reference its default
ResolveInputLenient(val, module, outputs, g, scope_iter) ==
    IF val.tag = "Default" THEN Ok(Some(val.default))
    ELSE LET r == resolve_ref(val.path, module, outputs, g, scope_iter) IN
         IF r.st # "Ok" THEN r
         ELSE IF r.val.some THEN r
         ELSE Ok(Some(val.default))

\* what one input resolves to: the `match val` of inject_inputs; the result of
\* resolve_ref is bound once, as the element of a singleton
ResolveInput(val, module, outputs, g, scope_iter) ==
    IF val.tag = "Default" THEN Ok(Some(val.default))
    ELSE CHOOSE res \in
            { IF r.st # "Ok" THEN r
              ELSE IF r.val.some THEN r
              ELSE IF val.tag = "Ref"
                   THEN Err("Reference not found", Join(val.path))
                   ELSE Ok(Some(val.default)) :
                r \in {resolve_ref(val.path, module, outputs, g, scope_iter)} } :
            TRUE

\* a loop whose insert refuses a key that is already set
RECURSIVE InjectLoopInsertNew(_, _, _, _, _)
InjectLoopInsertNew(keys, module, outputs, g, scope_iter) ==
    IF keys = <<>> THEN [st |-> "Ok", err |-> NoError, module |-> module]
    ELSE IF Head(keys) \in DOMAIN module.variables
    THEN [st |-> "Err", err |-> Error("Already set", Head(keys)),
          module |-> module]
    ELSE LET r == ResolveInput(module.inputs[Head(keys)], module, outputs, g,
                               scope_iter)
         IN  IF r.st # "Ok"
             THEN [st |-> r.st, err |-> r.err, module |-> module]
             ELSE InjectLoopInsertNew(Tail(keys),
                             [module EXCEPT
                                 !.variables = Put(@, Head(keys), r.val.v)],
                             outputs, g, scope_iter)

\* the loop `for (key, val) in &module.inputs`, in the order input_iter; the
\* resolved value is bound once, as the element of a singleton
RECURSIVE InjectLoop(_, _, _, _, _)
InjectLoop(keys, module, outputs, g, scope_iter) ==
    IF keys = <<>> THEN [st |-> "Ok", err |-> NoError, module |-> module]
    ELSE CHOOSE res \in
            { IF r.st # "Ok"
              THEN [st |-> r.st, err |-> r.err, module |-> module]
              ELSE InjectLoop(Tail(keys),
                              [module EXCEPT
                                  !.variables = Put(@, Head(keys), r.val.v)],
                              outputs, g, scope_iter) :
                r \in {ResolveInput(module.inputs[Head(keys)], module, outputs,
                                    g, scope_iter)} } : TRUE

\* inject_inputs; input_iter is the iteration order of module.inputs (a
\* HashMap), scope_iter that of module.scope_ids (a HashSet)
inject_inputs(module, outputs, g, input_iter, scope_iter) ==
    InjectLoop(input_iter, module, outputs, g, scope_iter)

(***************************************************************************)
(* The infra models the specifications start from.                         *)
(***************************************************************************)
\* all functions f on D with f[x] \in choices[x]
RECURSIVE Product(_, _)
Product(D, choices) ==
    IF D = {} THEN {EmptyMap}
    ELSE LET x == CHOOSE y \in D : TRUE IN
         {Put(f, x, c) : f \in Product(D \ {x}, choices), c \in choices[x]}

\* InfraFile::from_path after parsing (no source_default section)
from_path(raw) == add_scope_id_to_childrens(raw)

SourceChars ==
    << <<"v", "p", "c">>, <<"d", "b">>, <<"a", "p", "p">>,
       <<"l", "b">>, <<"m", "q">> >>

SourceName(i) == Join(SourceChars[i])

ModuleId(i) == "acct." \o SourceName(i)

\* module i of a generated model: it reads the output `id` of each dependency
GenModule(i, deps) ==
    ModuleNode(ModuleId(i), SourceName(i),
               [k \in 1..Len(deps) |-> SourceName(deps[k])],
               [d \in {SourceName(j) : j \in Range(deps)} |->
                   Ref(SourceChars[CHOOSE j \in Range(deps) :
                                      SourceName(j) = d] \o <<".", "i", "d">>)],
               Some([k \in {"id"} |-> Str(ModuleId(i))]))

\* one scope `acct` of type account holding n modules of distinct sources;
\* deps[i] lists the modules module i declares as dependencies
GenInfra(n, deps) ==
    [roots |-> {"acct"},
     scopes |-> [s \in {"acct"} |->
                    ScopeNode("acct", "account",
                              [k \in {"region"} |-> Str("eu")],
                              {ModuleId(i) : i \in 1..n})],
     modules |-> [m \in {ModuleId(i) : i \in 1..n} |->
                     GenModule(CHOOSE i \in 1..n : ModuleId(i) = m,
                               deps[CHOOSE i \in 1..n : ModuleId(i) = m])]]

\* the dependency lists of every model of NumModules modules with at most
\* MaxEdges dependency declarations, each module listing its dependencies in
\* every order
DepsUpTo(max) ==
    LET E == {e \in SUBSET ((1..NumModules) \X (1..NumModules)) :
                 Cardinality(e) <= max}
    IN  UNION { Product(1..NumModules,
                        [i \in 1..NumModules |->
                            Perms({j \in 1..NumModules : <<j, i>> \in e})])
              : e \in E }

GenDeps == DepsUpTo(MaxEdges)

\* the dependency lists of the models a run is made on: those with at most
\* MaxRunEdges declarations
RunDeps == DepsUpTo(MaxRunEdges)

\* vpc, db (on vpc) and app (on vpc and db, declared in either order)
TriangleDeps ==
    { << <<>>, <<1>>, <<1, 2>> >>, << <<>>, <<1>>, <<2, 1>> >> }

\* the inputs whose head names neither a dependency nor a scope type: a plain
\* reference and a reference with a default, with a well-formed and with a
\* malformed remaining path
UnknownHeadInputs ==
    { Ref(<<"n", "o", ".", "i", "d">>),
      RefWithDefault(<<"n", "o", ".", "i", "d">>, Num(1)),
      Ref(<<"n", "o", ".", "l", "[", "0">>),
      RefWithDefault(<<"n", "o", ".", "l", "[", "0">>, Num(1)) }

\* the chain vpc, db (on vpc), app (on db) in which module m declares the
\* additional input x
ChainInfra(m, val) ==
    LET f == GenInfra(3, << <<>>, <<1>>, <<2>> >>) IN
    [f EXCEPT !.modules[m].inputs = Put(@, "x", val)]

\* three nested scopes a, a.b and a.b.c, each directly holding a module `net`
\* of source vpc; a.b.c also holds the module app, which depends on vpc
NestedInfra ==
    [roots |-> {"a"},
     scopes |->
        [s \in {"a", "a.b", "a.b.c"} |->
            CASE s = "a" ->
                   ScopeNode("a", "org", EmptyMap, {"a.net", "a.b"})
              [] s = "a.b" ->
                   ScopeNode("a.b", "team", EmptyMap, {"a.b.net", "a.b.c"})
              [] OTHER ->
                   ScopeNode("a.b.c", "env", EmptyMap,
                             {"a.b.c.net", "a.b.c.app"})],
     modules |->
        [m \in {"a.net", "a.b.net", "a.b.c.net", "a.b.c.app"} |->
            IF m = "a.b.c.app"
            THEN ModuleNode(m, "app", <<"vpc">>, EmptyMap, None)
            ELSE ModuleNode(m, "vpc", <<>>, EmptyMap,
                            Some([k \in {"id"} |-> Str(m)]))]]

\* scope a holding the module app, which depends on vpc, and the scope a.b,
\* which holds the only module of source vpc
DeeperInfra ==
    [roots |-> {"a"},
     scopes |->
        [s \in {"a", "a.b"} |->
            IF s = "a"
            THEN ScopeNode("a", "org", EmptyMap, {"a.app", "a.b"})
            ELSE ScopeNode("a.b", "team", EmptyMap, {"a.b.net"})],
     modules |->
        [m \in {"a.app", "a.b.net"} |->
            IF m = "a.app"
            THEN ModuleNode(m, "app", <<"vpc">>, EmptyMap, None)
            ELSE ModuleNode(m, "vpc", <<>>, EmptyMap,
                            Some([k \in {"id"} |-> Str(m)]))]]

\* the reference paths of the inputs of an injection
InjPaths ==
    { <<"d", "b", ".", "i", "d">>,           \* an output of the dependency
      <<"d", "b", ".", "n", "o">>,           \* no such output
      <<"d", "b", ".", "w">>,                \* an output wrapped in `value`
      <<"d", "b", ".", "l", "[", "0", "]">>, \* an element of a list output
      <<"d", "b", ".", "l", "[", "1", "]">>, \* past the end of the list
      <<"d", "b", ".", "l", "[", "x", "]">>, \* not an index
      <<"d", "b", ".", "l", "[", "0">>,      \* no closing bracket
      <<"d", "b">>,                          \* the head alone
      <<"a", "c", "c", "o", "u", "n", "t", ".", "r">>,  \* a scope variable
      <<"a", "c", "c", "o", "u", "n", "t", ".", "n", "o">>,
      <<"n", "o", ".", "i", "d">> }          \* neither dependency nor scope

\* the values an input may be declared with
InjInputs ==
    {Default(Num(7))}
        \cup {Ref(p) : p \in InjPaths}
        \cup {RefWithDefault(p, Num(1)) : p \in InjPaths}

\* the outputs_map an injection may be given for the dependency acct.db
InjOutputs ==
    { EmptyMap,
      [m \in {"acct.db"} |-> EmptyMap],
      [m \in {"acct.db"} |->
          [k \in {"id", "w", "l"} |->
              CASE k = "id" -> Str("db-1")
                [] k = "w" -> MapV([v \in {"value"} |-> Num(5)])
                [] OTHER -> SeqV(<<Str("a")>>)]] }

\* scope acct of type account holding db and app; app depends on db and
\* declares the inputs x and y
InjInfra(x, y) ==
    [roots |-> {"acct"},
     scopes |-> [s \in {"acct"} |->
                    ScopeNode("acct", "account", [k \in {"r"} |-> Str("eu")],
                              {"acct.db", "acct.app"})],
     modules |->
        [m \in {"acct.db", "acct.app"} |->
            IF m = "acct.db"
            THEN ModuleNode(m, "db", <<>>, EmptyMap, None)
            ELSE ModuleNode(m, "app", <<"db">>,
                            [k \in {"x", "y"} |-> IF k = "x" THEN x ELSE y],
                            None)]]

\* the inputs that refer to the head db, which in ShadowInfra names both the
\* dependency and the type of the enclosing scope
ShadowInputs ==
    { Ref(<<"d", "b", ".", "i", "d">>),
      RefWithDefault(<<"d", "b", ".", "i", "d">>, Num(1)),
      Ref(<<"d", "b", ".", "r">>),
      RefWithDefault(<<"d", "b", ".", "r">>, Num(1)),
      Ref(<<"d", "b", ".", "w">>) }

\* scope acct of type db, with the variables id and r, holding db and app; app
\* depends on db and declares the inputs x and y
ShadowInfra(x, y) ==
    [roots |-> {"acct"},
     scopes |-> [s \in {"acct"} |->
                    ScopeNode("acct", "db",
                              [k \in {"id", "r"} |->
                                  IF k = "id" THEN Str("scope") ELSE Str("eu")],
                              {"acct.db", "acct.app"})],
     modules |->
        [m \in {"acct.db", "acct.app"} |->
            IF m = "acct.db"
            THEN ModuleNode(m, "db", <<>>, EmptyMap, None)
            ELSE ModuleNode(m, "app", <<"db">>,
                            [k \in {"x", "y"} |-> IF k = "x" THEN x ELSE y],
                            None)]]

(***************************************************************************)
(* State before anything ran.                                              *)
(***************************************************************************)
NotBuilt == GraphErr([kind |-> "NotBuilt", dep |-> "", module |-> ""])
NoPlan == [target_module_id |-> "", result |-> PlanErr("NoPlan")]
NoResult == [st |-> "None", err |-> NoError]
NoModule == ModuleNode("", "", <<>>, EmptyMap, None)
NoWalk == [st |-> "None", root |-> Null, path |-> <<>>, result |-> None]
\* no second application of inject_inputs yet
NoAgain == [st |-> "None", err |-> NoError, module |-> NoModule]

NoInj ==
    [st |-> "None", err |-> NoError, module |-> NoModule, input |-> NoModule,
     outputs_map |-> EmptyMap, input_iter |-> <<>>, scope_iter |-> <<>>,
     again |-> NoAgain]

RunIdle ==
    /\ action = "Apply"
    /\ pc = "idle"
    /\ layer_idx = 0
    /\ layers = <<>>
    /\ target = ""
    /\ tasks = EmptyMap
    /\ target_module = NoModule
    /\ outputs_map = EmptyMap
    /\ calls = EmptyMap
    /\ run_result = NoResult

runVars == <<action, pc, layer_idx, layers, target, tasks, target_module,
             outputs_map, calls, run_result>>

(***************************************************************************)
(* Building the graph and asking it for execution plans.                   *)
(***************************************************************************)
\* what ModuleGraph::new may return for f: one result for each iteration order
\* of the modules HashMap and of the scope_ids HashSets
NewResults(f) ==
    { ModuleGraphNew(f, values, scope_iter) :
        values \in Perms(DOMAIN f.modules),
        scope_iter \in Product(DOMAIN f.modules,
                               [m \in DOMAIN f.modules |->
                                   Perms(f.modules[m].scope_ids)]) }

\* Runtime::new builds the graph
New ==
    /\ graph = NotBuilt
    /\ graph' \in NewResults(infra)
    /\ UNCHANGED <<infra, plan, inj, walk>>
    /\ UNCHANGED runVars

Targets == DOMAIN infra.modules \cup {"none"}

\* what execution_layers may return: one result for each iteration order of
\* the HashSets of the layering loop
LayersResults(g, t) ==
    { execution_layers(g, t, iter) :
        iter \in Perms(DOMAIN g.mod_dependency_graph) }

\* a call of execution_layers on the built graph
ExecutionLayers ==
    /\ graph.ok
    /\ plan = NoPlan
    /\ \E t \in Targets :
          \E r \in LayersResults(graph, t) :
             plan' = [target_module_id |-> t, result |-> r]
    /\ UNCHANGED <<infra, graph, inj, walk>>
    /\ UNCHANGED runVars

InitGraph ==
    /\ \/ \E d \in GenDeps : infra = from_path(GenInfra(NumModules, d))
       \/ infra = from_path(NestedInfra)
       \/ infra = from_path(DeeperInfra)
    /\ graph = NotBuilt
    /\ plan = NoPlan
    /\ inj = NoInj
    /\ walk = NoWalk
    /\ RunIdle

NextGraph == New \/ ExecutionLayers

SpecGraph == InitGraph /\ [][NextGraph]_vars

(***************************************************************************)
(* runtime.rs: Runtime::run_module against a RunTerraformCommand.  A step  *)
(* is what one future does between two suspension points; the futures of a *)
(* layer take their steps in any order.                                    *)
(***************************************************************************)
Actions == {"Plan", "Apply", "Destroy"}

NoCalls ==
    [inject |-> 0, inject_ok |-> 0,
     init |-> 0, init_ret |-> 0, init_ok |-> 0,
     output |-> 0, output_ret |-> 0, output_ok |-> 0,
     apply |-> 0, apply_ret |-> 0, apply_ok |-> 0]

Pending == [st |-> "Pending", val |-> EmptyMap, err |-> NoError]
TaskOk(outputs) == [st |-> "Ok", val |-> outputs, err |-> NoError]
TaskErr(e) == [st |-> "Err", val |-> EmptyMap, err |-> e]

\* what RunTerraformCommand::init may return
InitResults(module) == {NoError, Error("init failed", module.id)}

\* what RunTerraformCommand::output may return: the mocked outputs (MockRunner),
\* no outputs at all, or an error
OutputResults(module) ==
    { TaskOk(IF module.mocked_outputs.some THEN module.mocked_outputs.v
             ELSE EmptyMap),
      TaskOk(EmptyMap),
      TaskErr(Error("output failed", module.id)) }

\* what RunTerraformCommand::apply may return
ApplyResults(module) == {NoError, Error("apply failed", module.id)}

\* ModuleGraph::get_module_by_id
get_module_by_id(g, id) == g.modules[id]

\* a lookup that hands out the stored module itself: what is injected into it
\* is written into the graph
graph_with_injected(g, id, module) == [g EXCEPT !.modules[id] = module]

\* the graph after inject_inputs ran on the module looked up under id:
\* get_module_by_id returns a clone, so the graph keeps what it stored
graph_after_inject(g, id, module) == g

\* a future that is given an empty map instead of the clone of outputs_map
FutureNoClone(g, id, outputs) ==
    [pc |-> "start", module |-> get_module_by_id(g, id),
     outputs_map |-> EmptyMap, result |-> Pending]

\* the closure of `layer.into_iter().map(...)`: the future of module id, with its
\* clone of the module and of outputs_map
Future(g, id, outputs) ==
    [pc |-> "start", module |-> get_module_by_id(g, id),
     outputs_map |-> outputs, result |-> Pending]

\* a run that flattens layer k and the next one into one join_all
layer_ids_two(ls, k) == IF k < Len(ls) THEN ls[k] \o ls[k + 1] ELSE ls[k]

\* the module ids whose futures join_all is given for layer k
layer_ids(ls, k) == ls[k]

\* a join that waits until every future has completed successfully
join_all_ok(ts) ==
    \A id \in DOMAIN ts : ts[id].pc = "ready" /\ ts[id].result.st = "Ok"

\* a join that returns as soon as one future has failed (try_join_all)
try_join_all_ready(ts) ==
    \/ \A id \in DOMAIN ts : ts[id].pc = "ready"
    \/ \E id \in DOMAIN ts : ts[id].pc = "ready" /\ ts[id].result.st = "Err"

\* join_all(futures).await is ready
join_all_ready(ts) == \A id \in DOMAIN ts : ts[id].pc = "ready"

\* a merge that skips the failed results instead of returning them
RECURSIVE MergeSkipErr(_, _, _)
MergeSkipErr(ids, ts, outputs) ==
    IF ids = <<>> THEN [err |-> NoError, outputs_map |-> outputs]
    ELSE LET res == ts[Head(ids)].result IN
         MergeSkipErr(Tail(ids), ts,
                      IF res.st = "Err" THEN outputs
                      ELSE Put(outputs, Head(ids), res.val))

\* a merge that checks the results and inserts nothing
RECURSIVE MergeNothing(_, _, _)
MergeNothing(ids, ts, outputs) ==
    IF ids = <<>> THEN [err |-> NoError, outputs_map |-> outputs]
    ELSE LET res == ts[Head(ids)].result IN
         IF res.st = "Err" THEN [err |-> res.err, outputs_map |-> outputs]
         ELSE MergeNothing(Tail(ids), ts, outputs)

\* a merge that inserts every successful result, also past the first failure
RECURSIVE MergeAllOk(_, _, _)
MergeAllOk(ids, ts, outputs) ==
    IF ids = <<>> THEN [err |-> NoError, outputs_map |-> outputs]
    ELSE LET res == ts[Head(ids)].result
             r == MergeAllOk(Tail(ids), ts,
                             IF res.st = "Err" THEN outputs
                             ELSE Put(outputs, Head(ids), res.val))
         IN  IF res.st = "Err" THEN [r EXCEPT !.err = res.err] ELSE r

\* `for res in results { let (id, outputs) = res?; outputs_map.insert(..) }`
RECURSIVE MergeResults(_, _, _)
MergeResults(ids, ts, outputs) ==
    IF ids = <<>> THEN [err |-> NoError, outputs_map |-> outputs]
    ELSE LET res == ts[Head(ids)].result IN
         IF res.st = "Err" THEN [err |-> res.err, outputs_map |-> outputs]
         ELSE MergeResults(Tail(ids), ts, Put(outputs, Head(ids), res.val))

\* a run that goes to the target after its first layer
after_first_layer(ls, k) == "target"

\* where run_module goes after layer k: the next layer, or the target
after_layer(ls, k) == IF k < Len(ls) THEN "layer" ELSE "target"

\* a run that applies the module it handled last in the layers
apply_last_layer(t, ls) == IF ls = <<>> THEN t ELSE ls[Len(ls)][1]

\* the module run_module calls apply on
apply_subject(t, ls) == t

Count(m, field) == [calls EXCEPT ![m][field] = @ + 1]

\* a run whose last call follows the requested action
final_operation_by_action(a) ==
    CASE a = "Plan" -> "plan"
      [] a = "Apply" -> "apply"
      [] OTHER -> "destroy"

\* the operation run_module invokes last on the target when asked for action
\* a: runner.apply, the parameter `action` being read nowhere
final_operation(a) == "apply"

\* a future that goes on to the output-read whatever init returned
init_error_dropped(e) == FALSE

\* the `?` on the result of runner.init: an error ends the future, or the run
init_failed(e) == e # NoError

\* a run that goes on whatever execution_layers returned
is_err_ignored(r) == FALSE

\* the `?` on the result of execution_layers
is_err(r) == ~r.ok

\* run_module up to the first layer: execution_layers and the empty outputs_map
RunModule ==
    /\ graph.ok
    /\ pc = "idle"
    /\ \E t \in Targets, a \in Actions :
       \E r \in LayersResults(graph, t) :
          /\ target' = t
          /\ action' = a
          /\ plan' = [target_module_id |-> t, result |-> r]
          /\ calls' = [m \in DOMAIN graph.modules |-> NoCalls]
          /\ outputs_map' = EmptyMap
          /\ IF ~is_err(r)
             THEN /\ layers' = r.layers
                  /\ layer_idx' = 1
                  /\ pc' = IF r.layers = <<>> THEN "target" ELSE "layer"
                  /\ run_result' = run_result
             ELSE /\ layers' = layers
                  /\ layer_idx' = layer_idx
                  /\ pc' = "done"
                  /\ run_result' = [st |-> "Err", err |-> Error(r.err, t)]
    /\ UNCHANGED <<infra, graph, tasks, target_module, inj, walk>>

\* the futures of the current layer are created and handed to join_all
SpawnLayer ==
    /\ pc = "layer"
    /\ tasks' = [id \in Range(layer_ids(layers, layer_idx)) |->
                    Future(graph, id, outputs_map)]
    /\ pc' = "join"
    /\ UNCHANGED <<infra, graph, plan, action, layer_idx, layers, target,
                   target_module, outputs_map, calls, run_result, inj, walk>>

\* what inject_inputs may return: one result for each iteration order of the
\* inputs HashMap and of the scope_ids HashSet of the module
InjectResults(module, outputs, g) ==
    { inject_inputs(module, outputs, g, input_iter, scope_iter) :
        input_iter \in Perms(DOMAIN module.inputs),
        scope_iter \in Perms(module.scope_ids) }

\* first poll of a future: inject_inputs, then runner.init is invoked
TaskInject(id) ==
    /\ pc = "join"
    /\ tasks[id].pc = "start"
    /\ \E r \in InjectResults(tasks[id].module, tasks[id].outputs_map, graph) :
           /\ graph' = graph_after_inject(graph, id, r.module)
           /\ CASE r.st = "Ok" ->
                    /\ tasks' = [tasks EXCEPT ![id].pc = "init",
                                              ![id].module = r.module]
                    /\ calls' = [calls EXCEPT ![id].inject = @ + 1,
                                              ![id].inject_ok = @ + 1,
                                              ![id].init = @ + 1]
                    /\ UNCHANGED <<pc, run_result>>
                [] r.st = "Err" ->
                    /\ tasks' = [tasks EXCEPT ![id].pc = "ready",
                                              ![id].module = r.module,
                                              ![id].result = TaskErr(r.err)]
                    /\ calls' = Count(id, "inject")
                    /\ UNCHANGED <<pc, run_result>>
                [] OTHER ->
                    /\ tasks' = [tasks EXCEPT ![id].pc = "panicked"]
                    /\ calls' = Count(id, "inject")
                    /\ pc' = "panicked"
                    /\ run_result' = [st |-> "Panic", err |-> r.err]
    /\ UNCHANGED <<infra, plan, action, layer_idx, layers, target,
                   target_module, outputs_map, inj, walk>>

\* runner.init returns to the future; on success runner.output is invoked
InitReturn(id) ==
    /\ pc = "join"
    /\ tasks[id].pc = "init"
    /\ \E e \in InitResults(tasks[id].module) :
          IF ~init_failed(e)
          THEN /\ tasks' = [tasks EXCEPT ![id].pc = "output"]
               /\ calls' = [calls EXCEPT ![id].init_ret = @ + 1,
                                         ![id].init_ok =
                                            IF e = NoError THEN @ + 1 ELSE @,
                                         ![id].output = @ + 1]
          ELSE /\ tasks' = [tasks EXCEPT ![id].pc = "ready",
                                         ![id].result = TaskErr(e)]
               /\ calls' = Count(id, "init_ret")
    /\ UNCHANGED <<infra, graph, plan, action, pc, layer_idx, layers, target,
                   target_module, outputs_map, run_result, inj, walk>>

\* runner.output returns to the future, which completes
OutputReturn(id) ==
    /\ pc = "join"
    /\ tasks[id].pc = "output"
    /\ \E r \in OutputResults(tasks[id].module) :
          /\ tasks' = [tasks EXCEPT ![id].pc = "ready", ![id].result = r]
          /\ calls' = IF r.st = "Ok"
                      THEN [calls EXCEPT ![id].output_ret = @ + 1,
                                         ![id].output_ok = @ + 1]
                      ELSE Count(id, "output_ret")
    /\ UNCHANGED <<infra, graph, plan, action, pc, layer_idx, layers, target,
                   target_module, outputs_map, run_result, inj, walk>>

\* join_all returns; the results are merged in the order of the layer
JoinLayer ==
    /\ pc = "join"
    /\ join_all_ready(tasks)
    /\ \E r \in {MergeResults(layer_ids(layers, layer_idx), tasks,
                               outputs_map)} :
       /\ outputs_map' = r.outputs_map
       /\ IF r.err = NoError
          THEN /\ pc' = after_layer(layers, layer_idx)
               /\ layer_idx' = layer_idx + 1
               /\ run_result' = run_result
          ELSE /\ pc' = "done"
               /\ layer_idx' = layer_idx
               /\ run_result' = [st |-> "Err", err |-> r.err]
    /\ UNCHANGED <<infra, graph, plan, action, layers, target, tasks,
                   target_module, calls, inj, walk>>

\* the target: inject_inputs with the full outputs_map, then runner.init is invoked
TargetInject ==
    /\ pc = "target"
    /\ \E r \in InjectResults(get_module_by_id(graph, target), outputs_map,
                               graph) :
              /\ target_module' = r.module
              /\ graph' = graph_after_inject(graph, target, r.module)
              /\ CASE r.st = "Ok" ->
                       /\ pc' = "target_init"
                       /\ calls' = [calls EXCEPT ![target].inject = @ + 1,
                                                 ![target].inject_ok = @ + 1,
                                                 ![target].init = @ + 1]
                       /\ run_result' = run_result
                   [] r.st = "Err" ->
                       /\ pc' = "done"
                       /\ calls' = Count(target, "inject")
                       /\ run_result' = [st |-> "Err", err |-> r.err]
                   [] OTHER ->
                       /\ pc' = "panicked"
                       /\ calls' = Count(target, "inject")
                       /\ run_result' = [st |-> "Panic", err |-> r.err]
    /\ UNCHANGED <<infra, plan, action, layer_idx, layers, target, tasks,
                   outputs_map, inj, walk>>

TargetInitReturn ==
    /\ pc = "target_init"
    /\ \E e \in InitResults(target_module) :
          IF ~init_failed(e)
          THEN /\ pc' = "target_output"
               /\ calls' = [calls EXCEPT ![target].init_ret = @ + 1,
                                         ![target].init_ok =
                                            IF e = NoError THEN @ + 1 ELSE @,
                                         ![target].output = @ + 1]
               /\ run_result' = run_result
          ELSE /\ pc' = "done"
               /\ calls' = Count(target, "init_ret")
               /\ run_result' = [st |-> "Err", err |-> e]
    /\ UNCHANGED <<infra, graph, plan, action, layer_idx, layers, target, tasks,
                   target_module, outputs_map, inj, walk>>

\* runner.output returns for the target, in a run asked for action a; on
\* success the final operation is invoked
TargetOutputReturnAs(a) ==
    /\ pc = "target_output"
    /\ \E r \in OutputResults(target_module) :
          IF r.st = "Ok"
          THEN /\ pc' = "target_apply"
               /\ calls' = [calls EXCEPT
                               ![target].output_ret = @ + 1,
                               ![target].output_ok = @ + 1,
                               ![apply_subject(target, layers)].apply =
                                   IF final_operation(a) = "apply"
                                   THEN @ + 1 ELSE @]
               /\ run_result' = run_result
          ELSE /\ pc' = "done"
               /\ calls' = Count(target, "output_ret")
               /\ run_result' = [st |-> "Err", err |-> r.err]
    /\ UNCHANGED <<infra, graph, plan, action, layer_idx, layers, target, tasks,
                   target_module, outputs_map, inj, walk>>

\* runner.output returns for the target; on success runner.apply is invoked
TargetOutputReturn == TargetOutputReturnAs(action)

\* runner.apply returns and run_module ends
TargetApplyReturn ==
    /\ pc = "target_apply"
    /\ \E e \in ApplyResults(target_module) :
          /\ pc' = "done"
          /\ calls' = IF e = NoError
                      THEN [calls EXCEPT
                              ![apply_subject(target, layers)].apply_ret = @ + 1,
                              ![apply_subject(target, layers)].apply_ok = @ + 1]
                      ELSE Count(apply_subject(target, layers), "apply_ret")
          /\ run_result' = IF e = NoError
                           THEN [st |-> "Ok", err |-> NoError]
                           ELSE [st |-> "Err", err |-> e]
    /\ UNCHANGED <<infra, graph, plan, action, layer_idx, layers, target, tasks,
                   target_module, outputs_map, inj, walk>>

InitRun ==
    /\ \/ \E d \in RunDeps : infra = from_path(GenInfra(NumModules, d))
       \/ \E d \in TriangleDeps : infra = from_path(GenInfra(3, d))
       \/ \E d \in MissingDeps : infra = from_path(MissingInfra(d))
       \/ \E m \in {ModuleId(i) : i \in 1..3} :
             \E val \in UnknownHeadInputs :
                infra = from_path(ChainInfra(m, val))
    /\ graph = NotBuilt
    /\ plan = NoPlan
    /\ inj = NoInj
    /\ walk = NoWalk
    /\ RunIdle

NextRun ==
    \/ New
    \/ RunModule
    \/ SpawnLayer
    \/ \E id \in DOMAIN tasks : TaskInject(id)
    \/ \E id \in DOMAIN tasks : InitReturn(id)
    \/ \E id \in DOMAIN tasks : OutputReturn(id)
    \/ JoinLayer
    \/ TargetInject
    \/ TargetInitReturn
    \/ TargetOutputReturn
    \/ TargetApplyReturn

SpecRun == InitRun /\ [][NextRun]_vars

\* the steps run_module takes once it was called: the polls of the futures by
\* the executor and the returns of the capability calls
RunSteps ==
    \/ SpawnLayer
    \/ \E id \in DOMAIN tasks : TaskInject(id)
    \/ \E id \in DOMAIN tasks : InitReturn(id)
    \/ \E id \in DOMAIN tasks : OutputReturn(id)
    \/ JoinLayer
    \/ TargetInject
    \/ TargetInitReturn
    \/ TargetOutputReturn
    \/ TargetApplyReturn

\* the dependency lists of the three-module models of the fair runs: the
\* triangles, app on vpc and db (which run in one layer), a chain, a cycle
\* between vpc and db under app, and a module that depends on itself
FairDeps ==
    TriangleDeps \cup
    { << <<>>, <<>>, <<1, 2>> >>,
      << <<>>, <<1>>, <<2>> >>,
      << <<2>>, <<1>>, <<1>> >>,
      << <<1>>, <<>>, <<>> >> }

InitRunFair ==
    /\ \/ \E d \in FairDeps : infra = from_path(GenInfra(3, d))
       \/ \E d \in MissingDeps : infra = from_path(MissingInfra(d))
       \/ \E m \in {ModuleId(i) : i \in 1..3} :
             \E val \in UnknownHeadInputs :
                infra = from_path(ChainInfra(m, val))
    /\ graph = NotBuilt
    /\ plan = NoPlan
    /\ inj = NoInj
    /\ walk = NoWalk
    /\ RunIdle

\* the run machine when every capability call eventually returns and the
\* executor keeps polling the future of run_module
SpecRunFair == InitRunFair /\ [][NextRun]_vars /\ WF_vars(RunSteps)

(***************************************************************************)
(* inject_inputs called on its own: on the module app of the built graph,  *)
(* with any of the outputs maps.                                           *)
(***************************************************************************)
InjectInputs ==
    /\ graph.ok
    /\ inj = NoInj
    /\ \E o \in InjOutputs :
          \E input_iter \in Perms(DOMAIN get_module_by_id(graph, "acct.app").inputs),
             scope_iter \in Perms(get_module_by_id(graph, "acct.app").scope_ids) :
             \E r \in {inject_inputs(get_module_by_id(graph, "acct.app"), o,
                                     graph, input_iter, scope_iter)} :
                inj' = [st |-> r.st, err |-> r.err, module |-> r.module,
                        input |-> get_module_by_id(graph, "acct.app"),
                        outputs_map |-> o, input_iter |-> input_iter,
                        scope_iter |-> scope_iter, again |-> NoAgain]
    /\ UNCHANGED <<infra, graph, plan, walk>>
    /\ UNCHANGED runVars

\* inject_inputs called once more on the module the first call returned from,
\* with the same outputs map; module.inputs and module.scope_ids were not
\* modified in between, so they iterate in the order they did before.  A
\* panic of the first call leaves nothing to call again.
InjectAgain ==
    /\ inj.st \in {"Ok", "Err"}
    /\ inj.again = NoAgain
    /\ \E r \in {inject_inputs(inj.module, inj.outputs_map, graph,
                                inj.input_iter, inj.scope_iter)} :
          inj' = [inj EXCEPT !.again = r]
    /\ UNCHANGED <<infra, graph, plan, walk>>
    /\ UNCHANGED runVars

InitInject ==
    /\ \/ \E x \in InjInputs :
             \E y \in {Default(Num(7)), Ref(<<"d", "b", ".", "i", "d">>)} :
                infra = from_path(InjInfra(x, y))
       \/ \E x \in ShadowInputs :
             infra = from_path(ShadowInfra(x, Default(Num(7))))
    /\ graph = NotBuilt
    /\ plan = NoPlan
    /\ inj = NoInj
    /\ walk = NoWalk
    /\ RunIdle

NextInject == New \/ InjectInputs \/ InjectAgain

SpecInject == InitInject /\ [][NextInject]_vars

(***************************************************************************)
(* A reference path walked on its own: parse_path, then                    *)
(* get_value_from_path on the mapping of a dependency's outputs.           *)
(***************************************************************************)
\* outputs whose endpoint is a list of wrapped mappings
EndpointOutputs ==
    MapV([k \in {"endpoint"} |->
            SeqV(<<MapV([w \in {"value"} |->
                           MapV([h \in {"host"} |-> Str("x")])])>>)])

\* an output wrapped twice
TwiceWrapped ==
    MapV([k \in {"a"} |->
            MapV([w \in {"value"} |-> MapV([x \in {"value"} |-> Num(1)])])])

\* an output whose mapping holds the wrapper key beside another key
WrapperBeside ==
    MapV([k \in {"a"} |->
            MapV([w \in {"value", "b"} |->
                    IF w = "value" THEN Num(1) ELSE Num(2)])])

\* a list, a string and a number
PlainOutputs ==
    MapV([k \in {"l", "s", "n"} |->
            CASE k = "l" -> SeqV(<<Str("p"), Str("q")>>)
              [] k = "s" -> Str("str")
              [] OTHER -> Num(3)])

\* outputs that themselves hold the wrapper key
WrappedRoot ==
    MapV([k \in {"value"} |-> MapV([x \in {"a"} |-> Num(1)])])

\* a wrapped list of wrapped values below two keys
DeepWrapped ==
    MapV([k \in {"a"} |->
            MapV([b \in {"b"} |->
                    MapV([w \in {"value"} |->
                            SeqV(<<MapV([x \in {"value"} |-> Num(5)])>>)])])])

\* the path endpoint[0].host
EndpointHostPath ==
    <<"e", "n", "d", "p", "o", "i", "n", "t", "[", "0", "]",
      ".", "h", "o", "s", "t">>

WalkRoots ==
    {EndpointOutputs, TwiceWrapped, WrapperBeside, PlainOutputs, WrappedRoot,
     DeepWrapped, MapV(EmptyMap)}

WalkPaths ==
    { EndpointHostPath,
      <<"e", "n", "d", "p", "o", "i", "n", "t", "[", "0", "]">>,
      <<"e", "n", "d", "p", "o", "i", "n", "t", "[", "1", "]">>,
      <<"e", "n", "d", "p", "o", "i", "n", "t", ".", "h", "o", "s", "t">>,
      <<"a">>,
      <<"a", ".", "b">>,
      <<"a", ".", "b", "[", "0", "]">>,
      <<"a", ".", "v", "a", "l", "u", "e">>,
      <<"l", "[", "0", "]">>,
      <<"l", "[", "1", "]">>,
      <<"l", "[", "2", "]">>,
      <<"l", "[", "+", "1", "]">>,
      <<"s", ".", "k">>,
      <<"s", "[", "0", "]">>,
      <<"z", "z">>,
      <<>>,
      <<"v", "a", "l", "u", "e", ".", "a">>,
      <<"l", "[", "x", "]">>,
      <<"l", "[", "0">> }

\* `parse_path(rest)` followed by `get_value_from_path(&yaml, &segments)`
WalkResults(root, path) ==
    { IF parse_path(path).panic
      THEN [st |-> "Panic", root |-> root, path |-> path, result |-> None]
      ELSE [st |-> "Ok", root |-> root, path |-> path,
            result |-> get_value_from_path(root, parse_path(path).segs)] }

GetValue ==
    /\ walk.st = "new"
    /\ \E r \in WalkResults(walk.root, walk.path) : walk' = r
    /\ UNCHANGED <<infra, graph, plan, inj>>
    /\ UNCHANGED runVars

InitWalk ==
    /\ \E root \in WalkRoots :
          \E path \in WalkPaths :
             walk = [st |-> "new", root |-> root, path |-> path,
                     result |-> None]
    /\ infra = from_path(NestedInfra)
    /\ graph = NotBuilt
    /\ plan = NoPlan
    /\ inj = NoInj
    /\ RunIdle

NextWalk == GetValue

SpecWalk == InitWalk /\ [][NextWalk]_vars

(***************************************************************************)
(* The properties' terms, stated on the resolved dependencies of the       *)
(* graph's modules and independently of execution_layers.                  *)
(***************************************************************************)
DirectDeps(g, m) == {g.modules[m].dependencies[i].id :
                        i \in DOMAIN g.modules[m].dependencies}

RECURSIVE ReachFrom(_, _)
ReachFrom(g, S) ==
    LET N == S \cup UNION {DirectDeps(g, m) : m \in S} IN
    IF N = S THEN S ELSE ReachFrom(g, N)

\* everything m transitively depends on
TransDeps(g, m) == ReachFrom(g, DirectDeps(g, m))

RelevantSet(g, t) == {t} \cup TransDeps(g, t)

Acyclic(g, S) == \A m \in S : m \notin TransDeps(g, m)

RECURSIVE Flatten(_)
Flatten(ls) == IF ls = <<>> THEN <<>> ELSE Head(ls) \o Flatten(Tail(ls))

Positions(order, m) == {i \in DOMAIN order : order[i] = m}

PlanAsked == graph.ok /\ plan # NoPlan /\ plan.target_module_id \in DOMAIN graph.modules

\* C1: when the target's relevant subgraph is acyclic, execution_layers
\* succeeds and the layers followed by the target are a topological order: every
\* relevant module occurs once, after each of its resolved dependencies.
C1_TopologicalOrder ==
    (PlanAsked /\ Acyclic(graph, RelevantSet(graph, plan.target_module_id)))
    => /\ plan.result.ok
       /\ LET t == plan.target_module_id
              order == Flatten(plan.result.layers) \o <<plan.result.target>>
          IN  \A m \in RelevantSet(graph, t) :
                 /\ Cardinality(Positions(order, m)) = 1
                 /\ \A d \in DirectDeps(graph, m) :
                       \A i \in Positions(order, d), j \in Positions(order, m) :
                          i < j
                 /\ DirectDeps(graph, m) \subseteq Range(order)

\* a plan with a layer was returned while a module outside the relevant set
\* lies on a cycle
C1_Witness ==
    /\ PlanAsked
    /\ plan.result.ok
    /\ Len(plan.result.layers) >= 1
    /\ \E m \in DOMAIN graph.modules :
          /\ m \notin RelevantSet(graph, plan.target_module_id)
          /\ m \in TransDeps(graph, m)

\* C2: when the target's relevant subgraph contains a cycle, execution_layers
\* fails with the cycle error, never with another error and never with layers.
C2_CycleDetected ==
    (PlanAsked /\ ~Acyclic(graph, RelevantSet(graph, plan.target_module_id)))
    => plan.result = PlanErr("CycleDetected")

\* the cycle error was returned for a target that is not itself on the cycle
C2_Witness ==
    /\ PlanAsked
    /\ plan.result = PlanErr("CycleDetected")
    /\ plan.target_module_id \notin TransDeps(graph, plan.target_module_id)

(***************************************************************************)
(* The terms of the properties of a run.                                   *)
(***************************************************************************)
Began(m) == calls[m].inject > 0

InFlight(m) ==
    \/ calls[m].init > calls[m].init_ret
    \/ calls[m].output > calls[m].output_ret
    \/ calls[m].apply > calls[m].apply_ret

\* init and output-read of m were invoked once and both returned successfully
Completed(m) ==
    /\ calls[m].init = 1 /\ calls[m].init_ok = 1
    /\ calls[m].output = 1 /\ calls[m].output_ok = 1

\* the injection, the init or the output-read of m failed
Failed(m) ==
    \/ calls[m].inject > calls[m].inject_ok
    \/ calls[m].init_ret > calls[m].init_ok
    \/ calls[m].output_ret > calls[m].output_ok

LayerOf(k) == Range(layers[k])

\* C3: when a module begins injection or init, every module it transitively
\* depends on has completed init and output-read and has its entry in
\* outputs_map (and in the snapshot the module's future reads); no result is
\* ever the error "Outputs missing".
C3_DependenciesPublished ==
    /\ \A id \in DOMAIN tasks :
          /\ TransDeps(graph, id) \subseteq DOMAIN tasks[id].outputs_map
          /\ tasks[id].result.err.msg # "Outputs missing"
    /\ \A m \in DOMAIN calls :
          (Began(m) \/ (pc = "target" /\ m = target))
          => \A d \in TransDeps(graph, m) :
                Completed(d) /\ ~InFlight(d) /\ d \in DOMAIN outputs_map
    /\ run_result.err.msg # "Outputs missing"

\* a module of the second layer, which has a dependency, is in its init call
C3_Witness ==
    /\ pc = "join"
    /\ layer_idx = 2
    /\ \E id \in DOMAIN tasks :
          tasks[id].pc = "init" /\ DirectDeps(graph, id) # {}

TargetBegun ==
    \/ pc \in {"target", "target_init", "target_output", "target_apply"}
    \/ target \in DOMAIN calls /\ Began(target)

\* C4: the target is begun only when every other relevant module has completed
\* and no call on any other module is in flight, and once apply was invoked on
\* the target no capability operation is invoked any more.
C4_TargetLast ==
    /\ [](TargetBegun =>
            \A m \in DOMAIN calls \ {target} :
               /\ ~InFlight(m)
               /\ m \in RelevantSet(graph, target) => Completed(m))
    /\ [][(target \in DOMAIN calls /\ calls[target].apply > 0)
           => \A m \in DOMAIN calls :
                 /\ calls'[m].init = calls[m].init
                 /\ calls'[m].output = calls[m].output
                 /\ calls'[m].apply = calls[m].apply]_vars

\* apply returned for a target that has two layers of dependencies
C4_Witness ==
    /\ pc = "done"
    /\ run_result.st = "Ok"
    /\ Len(layers) = 2
    /\ calls[target].apply_ret = 1

C6_ApplyOnlyTarget ==
    \A m \in DOMAIN calls :
       calls[m].apply <= (IF m = target THEN 1 ELSE 0)

\* apply was invoked on the target after its dependencies were initialized
C6_Witness ==
    /\ pc = "target_apply"
    /\ layers # <<>>
    /\ calls[target].apply = 1
    /\ \A m \in LayerOf(1) : calls[m].init = 1 /\ calls[m].apply = 0

\* the modules of source S located in a scope enclosing module m
Candidates(g, m, S) ==
    {x \in DOMAIN g.modules :
        /\ g.modules[x].source = S
        /\ g.modules[x].scope_ids # {}
        /\ g.modules[x].scope_ids \subseteq g.modules[m].scope_ids}

\* C7: a dependency on source S declared by a module is resolved to the module
\* of source S of the innermost enclosing scope that holds one: no other module
\* of source S in an enclosing scope lies deeper than the resolved one,
\* whatever the iteration orders of the scope-id set and of the module map.
C7_ScopePrecedence ==
    graph.ok =>
       \A m \in DOMAIN graph.modules :
          \A i \in DOMAIN graph.modules[m].dependencies :
             LET dep == graph.modules[m].dependencies[i] IN
             \A x \in Candidates(graph, m, dep.name) :
                Cardinality(graph.modules[x].scope_ids)
                   <= Cardinality(graph.modules[dep.id].scope_ids)

PathHead(path) ==
    Join(IF Find(path, ".") = 0 THEN path
         ELSE SubSeq(path, 1, Find(path, ".") - 1))

PathRest(path) ==
    IF Find(path, ".") = 0 THEN <<>>
    ELSE SubSeq(path, Find(path, ".") + 1, Len(path))

\* the remaining path is well formed and absent from the mapping vals
Absent(vals, rest) ==
    /\ ~parse_path(rest).panic
    /\ ~get_value_from_path(MapV(vals), parse_path(rest).segs).some

\* the path does not resolve for module m: its head is unknown, or names a
\* declared dependency whose outputs lack the remaining path, or names the
\* type of an enclosing scope whose variables lack it
Unresolved(path, m, outputs, g) ==
    LET d == FindDep(m.dependencies, PathHead(path), 1)
        scopes == {s \in m.scope_ids : g.scopes[s].name = PathHead(path)}
    IN  IF d # 0
        THEN /\ m.dependencies[d].id \in DOMAIN outputs
             /\ Absent(outputs[m.dependencies[d].id], PathRest(path))
        ELSE \A s \in scopes : Absent(g.scopes[s].variables, PathRest(path))

\* C8: an injection whose inputs are literals and references with a default
\* whose paths do not resolve succeeds, and sets the variable of each such
\* reference to its default.
C8_DefaultNeverFails ==
    (/\ inj.st # "None"
     /\ \A k \in DOMAIN inj.input.inputs :
           LET val == inj.input.inputs[k] IN
           \/ val.tag = "Default"
           \/ /\ val.tag = "RefWithDefault"
              /\ Unresolved(val.path, inj.input, inj.outputs_map, graph))
    => /\ inj.st = "Ok"
       /\ \A k \in DOMAIN inj.input.inputs :
             /\ k \in DOMAIN inj.module.variables
             /\ inj.module.variables[k] = inj.input.inputs[k].default

\* C9: once a task of a layer has failed the run cannot succeed, no module of
\* a later layer is ever begun and nothing is done on the target; once the
\* target's injection, init or output-read has failed, apply is not invoked.
C9_FailureAborts ==
    /\ \A k \in DOMAIN layers :
          \A m \in LayerOf(k) :
             Failed(m) =>
                /\ pc \in {"join", "done"}
                /\ pc = "done" => run_result.st = "Err"
                /\ layer_idx = k
                /\ \A j \in (k + 1)..Len(layers) :
                      \A e \in LayerOf(j) : calls[e] = NoCalls
                /\ calls[target] = NoCalls
    /\ (target \in DOMAIN calls /\ Failed(target))
          => /\ pc = "done"
             /\ run_result.st = "Err"
             /\ calls[target].apply = 0

\* the run ended in failure on a failed task of the first of two layers
C9_Witness ==
    /\ pc = "done"
    /\ run_result.st = "Err"
    /\ Len(layers) = 2
    /\ \E m \in LayerOf(1) : Failed(m)

\* C10: when the run reports a failure of a layer, every task of that layer
\* has run to completion: it is ready, none of its calls is in flight, and it
\* either failed itself or completed both init and output-read.
C10_WaitForAll ==
    (pc = "done" /\ plan.result.ok)
    => \A id \in DOMAIN tasks :
          /\ tasks[id].pc = "ready"
          /\ ~InFlight(id)
          /\ Failed(id) \/ Completed(id)

\* the run reported the failure of one task of a layer whose other task
\* completed both of its calls
C10_Witness ==
    /\ pc = "done"
    /\ run_result.st = "Err"
    /\ \E a \in DOMAIN tasks :
          \E b \in DOMAIN tasks :
             /\ a # b
             /\ Failed(a)
             /\ Completed(b)
             /\ tasks[b].result.st = "Ok"

\* the run aborted on a failure of its layer layer_idx
LayerAborted ==
    /\ pc = "done"
    /\ plan.result.ok
    /\ layer_idx \in DOMAIN layers
    /\ run_result.st = "Err"

EarlierLayers(k) == UNION {LayerOf(j) : j \in 1..(k - 1)}

\* the position in layer k of its first failed task
FirstFailed(k) ==
    CHOOSE i \in DOMAIN layers[k] :
       /\ tasks[layers[k][i]].result.st = "Err"
       /\ \A j \in 1..(i - 1) : tasks[layers[k][j]].result.st = "Ok"

\* C11, as the specification words it: when the run aborts on a layer, outputs_map holds exactly
\* the outputs of the earlier layers and none of the aborted layer.
C11_FailedLayerDiscarded ==
    LayerAborted => DOMAIN outputs_map = EarlierLayers(layer_idx)

\* C11, as run_module has it: when the run aborts on a layer, outputs_map holds exactly the
\* outputs of the earlier layers and of the tasks that precede the first failed
\* task in the order of the layer; the outputs of the tasks after it are not
\* inserted.
C11_FailedLayerPrefix ==
    LayerAborted =>
       LET k == layer_idx
           before == {layers[k][j] : j \in 1..(FirstFailed(k) - 1)}
       IN  /\ DOMAIN outputs_map = EarlierLayers(k) \cup before
           /\ \A m \in before : outputs_map[m] = tasks[m].result.val
           /\ \A m \in LayerOf(k) \ before : m \notin DOMAIN outputs_map

\* the run aborted on a layer whose first task succeeded, whose second failed
C11_Witness ==
    /\ LayerAborted
    /\ Len(layers[layer_idx]) = 2
    /\ FirstFailed(layer_idx) = 2
    /\ layers[layer_idx][1] \in DOMAIN outputs_map

\* C12: while a layer runs, the snapshot of each of its tasks equals outputs_map
\* and holds exactly the modules of the earlier layers; a snapshot never
\* changes, and outputs_map changes only in the step that ends the layer, when
\* every task of the layer is ready.
C12_SingleWriter ==
    /\ [](pc = "join" =>
            \A id \in DOMAIN tasks :
               /\ tasks[id].outputs_map = outputs_map
               /\ DOMAIN tasks[id].outputs_map = EarlierLayers(layer_idx))
    /\ [][/\ outputs_map' # outputs_map
             => /\ pc = "join"
                /\ pc' # "join"
                /\ \A id \in DOMAIN tasks : tasks[id].pc = "ready"
          /\ pc = "join"
             => \A id \in DOMAIN tasks :
                   tasks'[id].outputs_map = tasks[id].outputs_map]_vars

\* a task of the second layer runs on a snapshot holding the first layer
C12_Witness ==
    /\ pc = "join"
    /\ layer_idx = 2
    /\ \E id \in DOMAIN tasks :
          /\ tasks[id].pc = "output"
          /\ DOMAIN tasks[id].outputs_map = LayerOf(1)
          /\ Cardinality(LayerOf(1)) = 1

\* dependency i of module m of the infra file names a source that no module
\* sharing a scope id with m has
Unresolvable(f, m, i) ==
    ~\E x \in DOMAIN f.modules :
        /\ f.modules[x].source = f.modules[m].dependencies[i].name
        /\ f.modules[x].scope_ids \cap f.modules[m].scope_ids # {}

\* C13: if some module of the infra file declares an unresolvable dependency,
\* graph construction fails with DependencyNotFound naming such a dependency
\* and the module that declares it, and no run, hence no init, output or apply
\* call, ever takes place.
C13_DependencyNotFound ==
    (/\ graph # NotBuilt
     /\ \E m \in DOMAIN infra.modules :
           \E i \in DOMAIN infra.modules[m].dependencies :
              Unresolvable(infra, m, i))
    => /\ ~graph.ok
       /\ graph.err.kind = "DependencyNotFound"
       /\ graph.err.module \in DOMAIN infra.modules
       /\ \E i \in DOMAIN infra.modules[graph.err.module].dependencies :
             /\ infra.modules[graph.err.module].dependencies[i].name
                   = graph.err.dep
             /\ Unresolvable(infra, graph.err.module, i)
       /\ pc = "idle"
       /\ calls = EmptyMap
       /\ run_result = NoResult

\* construction failed on a dependency whose source exists in another scope
\* only, while the other dependency of the module resolves
C13_Witness ==
    /\ ~graph.ok
    /\ graph.err = DependencyNotFound("mq", "acct.app")
    /\ \E i \in DOMAIN infra.modules["acct.app"].dependencies :
          ~Unresolvable(infra, "acct.app", i)

\* C14: when execution_layers fails, run_module returns its error and no
\* future is created and no init, output or apply call is made.
C14_PlanErrorPropagated ==
    (pc # "idle" /\ ~plan.result.ok)
    => /\ pc = "done"
       /\ plan.result.err \in {"TargetNotFound", "CycleDetected"}
       /\ run_result = [st |-> "Err", err |-> Error(plan.result.err, target)]
       /\ tasks = EmptyMap
       /\ \A m \in DOMAIN calls : calls[m] = NoCalls

\* run_module returned the error of a target that is not in the graph
C14_Witness ==
    /\ pc = "done"
    /\ target \notin DOMAIN graph.modules
    /\ run_result = [st |-> "Err", err |-> Error("TargetNotFound", target)]

\* C15: on success the layers hold each module the target transitively depends
\* on exactly once and nothing else (not the target, no dependent of it, no
\* unrelated module), no layer is empty, the returned target is the requested
\* one, and a run makes no call on a module outside the target's closure.
C15_LayersPartitionClosure ==
    (PlanAsked /\ plan.result.ok)
    => LET t == plan.target_module_id
           flat == Flatten(plan.result.layers)
       IN  /\ Range(flat) = RelevantSet(graph, t) \ {t}
           /\ \A m \in Range(flat) : Cardinality(Positions(flat, m)) = 1
           /\ \A k \in DOMAIN plan.result.layers : plan.result.layers[k] # <<>>
           /\ plan.result.target = t
           /\ \A m \in DOMAIN calls :
                 m \notin RelevantSet(graph, t) => calls[m] = NoCalls

\* a run succeeded on a target that has a dependency and a dependent
C15_Witness ==
    /\ pc = "done"
    /\ run_result.st = "Ok"
    /\ plan.result.layers # <<>>
    /\ \E m \in DOMAIN graph.modules :
          /\ target \in DirectDeps(graph, m)
          /\ calls[m] = NoCalls

\* the index of the layer of the plan that holds module m
LayerIndex(m) ==
    CHOOSE k \in DOMAIN plan.result.layers : m \in Range(plan.result.layers[k])

Max(S) == CHOOSE x \in S : \A y \in S : y <= x

\* the graph is the chain vpc (no dependency), db (on vpc), app (on db)
IsChain ==
    /\ DOMAIN graph.modules = {"acct.vpc", "acct.db", "acct.app"}
    /\ DirectDeps(graph, "acct.vpc") = {}
    /\ DirectDeps(graph, "acct.db") = {"acct.vpc"}
    /\ DirectDeps(graph, "acct.app") = {"acct.db"}

\* C16: every module of a layer is in the earliest possible one: the first if
\* it has no dependency, otherwise the one after the last layer holding one of
\* its dependencies; for the chain vpc, db, app and the target app the plan is
\* ([[vpc], [db]], app).
C16_EarliestLayer ==
    (PlanAsked /\ plan.result.ok)
    => /\ \A k \in DOMAIN plan.result.layers :
             \A m \in Range(plan.result.layers[k]) :
                k = 1 + Max({0} \cup {LayerIndex(d) : d \in DirectDeps(graph, m)})
       /\ (IsChain /\ plan.target_module_id = "acct.app")
             => plan.result = [ok |-> TRUE, err |-> "",
                               layers |-> << <<"acct.vpc">>, <<"acct.db">> >>,
                               target |-> "acct.app"]

\* the plan of the chain for the target app
C16_Witness ==
    /\ PlanAsked
    /\ IsChain
    /\ plan.target_module_id = "acct.app"
    /\ plan.result.ok
    /\ Len(plan.result.layers) = 2

\* C17: no module of a layer depends, directly or transitively, on another
\* module of the same layer.
C17_LayerIndependent ==
    (PlanAsked /\ plan.result.ok)
    => \A k \in DOMAIN plan.result.layers :
          \A m1 \in Range(plan.result.layers[k]) :
             \A m2 \in Range(plan.result.layers[k]) :
                m1 \notin TransDeps(graph, m2)

\* a layer of two modules
C17_Witness ==
    /\ PlanAsked
    /\ plan.result.ok
    /\ \E k \in DOMAIN plan.result.layers : Len(plan.result.layers[k]) = 2

\* C18: execution_layers never returns the layering error.
C18_NoLayeringError ==
    plan.result # PlanErr("LayeringError")

\* the cycle check passed and the layering loop ran, in a graph where a module
\* outside the target's closure depends on itself
C18_Witness ==
    /\ PlanAsked
    /\ plan.result.ok
    /\ plan.result.layers # <<>>
    /\ \E m \in DOMAIN graph.modules : m \in DirectDeps(graph, m)

\* the head of the path names no declared dependency of the module and no
\* type of a scope enclosing it
UnknownHead(module, path) ==
    /\ FindDep(module.dependencies, PathHead(path), 1) = 0
    /\ \A sid \in module.scope_ids : graph.scopes[sid].name # PathHead(path)

\* every input of the module other than k resolves against outputs
OthersResolve(module, k, outputs) ==
    \A k2 \in DOMAIN module.inputs \ {k} :
       ResolveInput(module.inputs[k2], module, outputs, graph,
                    CHOOSE q \in Perms(module.scope_ids) : TRUE).st = "Ok"

\* what C19 requires of an injection into the module of the graph with id m,
\* given outputs, that was begun and left `injected` and the result `res`
InjectionAsRequired(m, outputs, injected, res) ==
    \A k \in DOMAIN graph.modules[m].inputs :
       LET module == graph.modules[m]
           val == module.inputs[k]
       IN  (val.tag # "Default" /\ UnknownHead(module, val.path))
           => IF val.tag = "Ref"
              THEN /\ res.st = "Err"
                   /\ calls[m].inject_ok = 0
                   /\ calls[m].init = 0
                   /\ calls[m].output = 0
                   /\ calls[m].apply = 0
                   /\ pc \in {"join", "done"}
                   /\ pc = "done" => run_result.st = "Err"
                   /\ OthersResolve(module, k, outputs)
                         => res.err = Error("Reference not found",
                                            Join(val.path))
              ELSE OthersResolve(module, k, outputs)
                      => /\ calls[m].inject_ok = 1
                         /\ k \in DOMAIN injected.variables
                         /\ injected.variables[k] = val.default

\* C19: an injection into a module with a plain reference whose head is
\* unknown fails, with the reference-not-found error when its other inputs
\* resolve; init, output and apply are then never invoked on the module and the
\* run can only end in error.  With a reference with default in its place the
\* variable gets the default and the injection succeeds.
C19_UnknownHead ==
    /\ \A id \in DOMAIN tasks :
          tasks[id].pc # "start"
          => InjectionAsRequired(id, tasks[id].outputs_map, tasks[id].module,
                                 tasks[id].result)
    /\ (target \in DOMAIN calls /\ calls[target].inject > 0)
          => InjectionAsRequired(target, outputs_map, target_module, run_result)

\* a task of the second layer failed on its plain reference with unknown head
\* and the run ended with that error
C19_Witness ==
    /\ pc = "done"
    /\ layer_idx = 2
    /\ \E id \in DOMAIN tasks :
          /\ tasks[id].result.st = "Err"
          /\ run_result.err = Error("Reference not found", "no.id")
          /\ tasks[id].result.err = run_result.err
          /\ calls[id].init = 0

\* the walk of path on root was made and returned res
Walked(root, path, res) ==
    (walk.st # "new" /\ walk.root = root /\ walk.path = path)
    => (walk.st = "Ok" /\ walk.result = res)

C21_InjectionIdempotent ==
    inj.again # NoAgain =>
       /\ inj.again.st = inj.st
       /\ inj.again.err = inj.err
       /\ inj.st = "Ok" => inj.again.module.variables = inj.module.variables

\* a second application succeeded on a module whose variables the first had
\* set from a reference into the dependency's outputs
C21_Witness ==
    /\ inj.again.st = "Ok"
    /\ inj.st = "Ok"
    /\ \E k \in DOMAIN inj.input.inputs :
          /\ inj.input.inputs[k].tag = "Ref"
          /\ k \in DOMAIN inj.module.variables

\* the bracket syntax of the path after its head is malformed: parse_path
\* would not parse it
Malformed(path) == parse_path(PathRest(path)).panic

\* what C22 requires of the run once the injection into module m, given
\* outputs, was begun
MalformedAsRequired(m, outputs) ==
    \A k \in DOMAIN graph.modules[m].inputs :
       LET module == graph.modules[m]
           val == module.inputs[k]
       IN  (/\ val.tag # "Default"
            /\ Malformed(val.path)
            /\ OthersResolve(module, k, outputs))
           => /\ pc = "panicked"
              /\ run_result.st = "Panic"
              /\ calls[m].inject_ok = 0

\* C22: an injection into a module with a reference, plain or with a default,
\* whose path has malformed bracket syntax ends the run in the fatal parse
\* failure, whether or not the head of the path names a declared dependency
\* or the type of an enclosing scope; the default is never used for it.
C22_MalformedIsFatal ==
    /\ \A id \in DOMAIN tasks :
          tasks[id].pc # "start"
          => MalformedAsRequired(id, tasks[id].outputs_map)
    /\ (target \in DOMAIN calls /\ calls[target].inject > 0)
          => MalformedAsRequired(target, outputs_map)

C24_ScopeVisibility ==
    graph.ok =>
       \A m \in DOMAIN graph.modules :
          \A i \in DOMAIN graph.modules[m].dependencies :
             graph.modules[graph.modules[m].dependencies[i].id].scope_ids
                \subseteq graph.modules[m].scope_ids

\* the head of the path names both a declared dependency of the module and the
\* type of a scope enclosing it
HeadIsBoth(module, path) ==
    /\ FindDep(module.dependencies, PathHead(path), 1) # 0
    /\ \E sid \in module.scope_ids : graph.scopes[sid].name = PathHead(path)

\* C25: a reference whose head names both a declared dependency and the type
\* of an enclosing scope is walked against the outputs of the dependency only:
\* when they hold the remaining path the variable gets the value found there,
\* and when they lack it the injection fails with the cannot-resolve error,
\* whatever the variables of the scope hold.
C25_DependencyFirst ==
    inj.st # "None" =>
       \A k \in DOMAIN inj.input.inputs :
          LET module == inj.input
              val == module.inputs[k]
              d == FindDep(module.dependencies, PathHead(val.path), 1)
              vals == inj.outputs_map[module.dependencies[d].id]
          IN  (/\ val.tag # "Default"
               /\ HeadIsBoth(module, val.path)
               /\ module.dependencies[d].id \in DOMAIN inj.outputs_map
               /\ ~Malformed(val.path)
               /\ OthersResolve(module, k, inj.outputs_map))
              => IF Absent(vals, PathRest(val.path))
                 THEN /\ inj.st = "Err"
                      /\ inj.err = Error("Cannot resolve", Join(val.path))
                      /\ k \notin DOMAIN inj.module.variables
                 ELSE /\ inj.st = "Ok"
                      /\ inj.module.variables[k] =
                            get_value_from_path(
                               MapV(vals), parse_path(PathRest(val.path)).segs).v

\* the injection failed on db.r, which the outputs of the dependency db lack
\* and the variables of the enclosing scope of type db hold
C25_Witness ==
    /\ inj.st = "Err"
    /\ inj.err = Error("Cannot resolve", "db.r")
    /\ "acct.db" \in DOMAIN inj.outputs_map
    /\ \E sid \in inj.input.scope_ids :
          /\ graph.scopes[sid].name = "db"
          /\ "r" \in DOMAIN graph.scopes[sid].variables

\* the calls on module m follow the order of a future: init is invoked at most
\* once and only after a successful injection, output-read at most once and
\* only after a successful init, apply only after a successful output-read
ProtocolKept(m) ==
    /\ calls[m].inject <= 1
    /\ calls[m].init <= calls[m].inject_ok
    /\ calls[m].output <= calls[m].init_ok
    /\ calls[m].apply <= calls[m].output_ok
    /\ calls[m].inject > calls[m].inject_ok => calls[m].init = 0
    /\ calls[m].init_ret > calls[m].init_ok => calls[m].output = 0
    /\ calls[m].output_ret > calls[m].output_ok => calls[m].apply = 0

\* C26: on every module injection precedes init and init precedes output-read;
\* init is not invoked after a failed injection nor output-read after a failed
\* init; in a successful run every relevant module, the target included,
\* receives init once and output-read once, no other module receives a call,
\* and the target receives apply once, after its output-read.
C26_CallProtocol ==
    /\ \A m \in DOMAIN calls : ProtocolKept(m)
    /\ (pc = "done" /\ run_result.st = "Ok")
          => /\ \A m \in RelevantSet(graph, target) :
                   /\ calls[m].inject = 1
                   /\ Completed(m)
                   /\ calls[m].init_ret = 1 /\ calls[m].output_ret = 1
             /\ \A m \in DOMAIN calls \ RelevantSet(graph, target) :
                   calls[m] = NoCalls
             /\ calls[target].apply = 1
             /\ calls[target].apply_ok = 1

\* a successful run over two layers: every relevant module completed init
\* and output-read and apply returned for the target
C26_Witness ==
    /\ pc = "done"
    /\ run_result.st = "Ok"
    /\ Len(layers) = 2
    /\ calls[target].apply_ok = 1
    /\ \A m \in RelevantSet(graph, target) : Completed(m)

\* C27: run_module leaves the dependency graph as construction made it: no
\* step of a run changes its edges, its scopes or any stored module, the
\* variables of a stored module included, which injection sets in the copy of
\* the future or of the target only.
C27_GraphUnchanged ==
    /\ [][graph.ok => graph' = graph]_vars
    /\ [](graph.ok =>
            \A m \in DOMAIN graph.modules :
               graph.modules[m].variables = infra.modules[m].variables)

\* a run ended after injection had set a variable in the copy of a future
\* and in the copy of the target, the stored modules having none
C27_Witness ==
    /\ pc = "done"
    /\ run_result.st = "Ok"
    /\ target_module.variables # EmptyMap
    /\ graph.modules[target].variables = EmptyMap
    /\ \E id \in DOMAIN tasks :
          /\ tasks[id].module.variables # EmptyMap
          /\ graph.modules[id].variables = EmptyMap

\* run_module has returned or has panicked
Terminal == pc \in {"done", "panicked"}

\* C28: execution_layers returns for every target of every built graph, and a
\* run that was started eventually reaches a terminal state, which it never
\* leaves: success, after the apply of the target returned, or one failure.
C28_Terminates ==
    /\ [](graph.ok =>
            \A t \in Targets :
               \A r \in LayersResults(graph, t) :
                  IF r.ok THEN r.target = t
                  ELSE r.err \in {"TargetNotFound", "CycleDetected"})
    /\ (pc # "idle") ~> Terminal
    /\ [](Terminal =>
            /\ run_result.st \in {"Ok", "Err", "Panic"}
            /\ run_result.st = "Ok" <=> run_result.err = NoError
            /\ run_result.st = "Ok" => calls[target].apply_ok = 1)
    /\ [][Terminal => UNCHANGED <<pc, run_result, calls, tasks>>]_vars

\* a run over two layers returned after a future of its second layer failed
C28_Witness ==
    /\ pc = "done"
    /\ run_result.st = "Err"
    /\ layer_idx = 2
    /\ \E id \in DOMAIN tasks : tasks[id].result.st = "Err"

\* C29: graph construction never resolves a dependency declared by a module
\* to that module itself, also when the module's own source is the declared
\* name, and never creates an edge from a module to itself.
C29_NoSelfResolution ==
    graph.ok =>
       \A m \in DOMAIN graph.modules :
          /\ \A i \in DOMAIN graph.modules[m].dependencies :
                graph.modules[m].dependencies[i].id # m
          /\ m \notin DirectDeps(graph, m)

\* C30: the module each declared dependency resolves to, hence the edges of
\* the graph and the plan of every target, are the same for every iteration
\* order of the module map and of the scope-id sets: every graph construction
\* may build from the infra file equals the one that was built.
C30_ResolutionDeterministic ==
    graph # NotBuilt =>
       \A g2 \in NewResults(infra) :
          /\ g2.ok = graph.ok
          /\ g2.ok =>
                /\ \A m \in DOMAIN graph.modules :
                      g2.modules[m].dependencies = graph.modules[m].dependencies
                /\ \A m \in DOMAIN graph.modules :
                      DirectDeps(g2, m) = DirectDeps(graph, m)
                /\ \A t \in DOMAIN graph.modules :
                      {[ok |-> r.ok, layers |-> [k \in DOMAIN r.layers |->
                                                   Range(r.layers[k])]] :
                          r \in LayersResults(g2, t)}
                      = {[ok |-> r.ok, layers |-> [k \in DOMAIN r.layers |->
                                                     Range(r.layers[k])]] :
                            r \in LayersResults(graph, t)}

====
